---- MODULE Spec2Model ----
(***************************************************************************)
(* A model of flood_classification (src/src/flood_classification):         *)
(*   check_resolution_and_crs   the Resolution/CRS Reconciler              *)
(*   raster_to_dataframe        the Raster Tabularizer                     *)
(*   create_final_dataframe     the Feature Fusion Join                    *)
(*   calculate_distance_to_features   the Proximity Engine, step by step  *)
(* Each of the first three is one action.  Init draws the arguments of    *)
(* one call from bounded sets; the action of that function computes what   *)
(* the call returns (or raises).  The fourth is one action per step.       *)
(*                                                                         *)
(* Numbers.  A Python float is a record: Num(v) for the number v (an       *)
(* integer here), NaN for the missing-value marker np.nan, None for the    *)
(* Python None.  Coordinates and pixel sizes are plain integers.           *)
(***************************************************************************)
EXTENDS Integers, Sequences, FiniteSets, TLC

VARIABLES
    op,                 \* the function this run calls
    pc,                 \* "call" before the function ran, "done" after
    dtm_df, lulc_df, flood_df, river_df, tributaries_df, basin_df,
                        \* the six arguments of create_final_dataframe
    final_df,           \* what create_final_dataframe returned
    raster_layer,       \* the argument of raster_to_dataframe
    block_garbage,      \* what the reads past the end of the block gave
    df,                 \* what raster_to_dataframe returned
    raster1, raster2,   \* the two grids given to check_resolution_and_crs
    target_resolution,  \* its target_resolution argument
    outcome,            \* what check_resolution_and_crs returned or raised
    output_path,        \* calculate_distance_to_features: its output_path
    pending,            \* the output paths of main's calls still to come
    input_ds, output_ds,\* its two locals: None, or an open dataset
    open_handles,       \* the paths the process holds an open dataset on
    distance            \* what calculate_distance_to_features returned/raised

vars == <<op, pc, dtm_df, lulc_df, flood_df, river_df, tributaries_df,
          basin_df, final_df, raster_layer, block_garbage, df,
          raster1, raster2, target_resolution, outcome,
          output_path, pending, input_ds, output_ds, open_handles, distance>>

fusionVars == <<dtm_df, lulc_df, flood_df, river_df, tributaries_df,
                basin_df, final_df>>
tabularVars == <<raster_layer, block_garbage, df>>
reconcileVars == <<raster1, raster2, target_resolution, outcome>>
distanceVars == <<output_path, pending, input_ds, output_ds, open_handles,
                  distance>>

----------------------------------------------------------------------------
(* Values *)

Num(v) == [kind |-> "num", v |-> v]
NaN == [kind |-> "nan", v |-> 0]
None == [kind |-> "None", v |-> 0]

IsNum(a) == a.kind = "num"
Abs(n) == IF n < 0 THEN -n ELSE n

----------------------------------------------------------------------------
(* Bounds *)

\* pixel keys the record sets given to the fusion range over
MaxKeys == 2
\* how many cells of the six record sets may be absent, missing or zero
MaxDefects == 2
\* pixels of the grids given to the tabularizer (width * height)
MaxCells == 4
\* the origins of the grids given to the reconciler lie in -1 .. MaxCoord
MaxCoord == 1

----------------------------------------------------------------------------
(* pandas: a DataFrame is a sequence of rows, a row a function from column *)
(* names to values; x and y are integers, every other column a float.      *)

Key(row) == <<row.x, row.y>>
KeysOf(frame) == {Key(frame[i]) : i \in DOMAIN frame}
RowsAt(frame, k) == SelectSeq(frame, LAMBDA row : Key(row) = k)

\* DataFrame.rename(columns={'value': name})
rename(frame, name) ==
    [i \in DOMAIN frame |->
        (name :> frame[i].value) @@ [x |-> frame[i].x, y |-> frame[i].y]]

LexLess(a, b) == a[1] < b[1] \/ (a[1] = b[1] /\ a[2] < b[2])
MinKey(S) == CHOOSE k \in S : \A j \in S : j = k \/ LexLess(k, j)

RECURSIVE SortedKeys(_)
SortedKeys(S) ==
    IF S = {} THEN <<>>
    ELSE LET k == MinKey(S) IN <<k>> \o SortedKeys(S \ {k})

Missing(cols) == [c \in cols |-> NaN]

RECURSIVE Cross(_, _)
\* every row of L paired with every row of R (the rows of one key)
Cross(L, R) ==
    IF L = <<>> THEN <<>>
    ELSE [j \in DOMAIN R |-> L[1] @@ R[j]] \o Cross(Tail(L), R)

\* the rows an outer join gives for one key
JoinKey(left, leftCols, right, rightCols, k) ==
    LET L == RowsAt(left, k)
        R == RowsAt(right, k)
    IN  IF R = <<>> THEN [i \in DOMAIN L |-> L[i] @@ Missing(rightCols)]
        ELSE IF L = <<>> THEN [j \in DOMAIN R |-> Missing(leftCols) @@ R[j]]
        ELSE Cross(L, R)

RECURSIVE JoinKeys(_, _, _, _, _)
JoinKeys(left, leftCols, right, rightCols, ks) ==
    IF ks = <<>> THEN <<>>
    ELSE JoinKey(left, leftCols, right, rightCols, Head(ks))
            \o JoinKeys(left, leftCols, right, rightCols, Tail(ks))

\* the keys how='inner' would keep: those of both frames
MergeKeysInner(left, right) == KeysOf(left) \cap KeysOf(right)
\* the keys pd.merge(..., how='outer') keeps: those of either frame
MergeKeys(left, right) == KeysOf(left) \cup KeysOf(right)

\* pd.merge(left, right, on=['x', 'y'], how='outer'): the keys of either
\* frame, sorted; a key one frame lacks gets NaN in that frame's columns
pd_merge(left, leftCols, right, rightCols) ==
    JoinKeys(left, leftCols, right, rightCols,
             SortedKeys(MergeKeys(left, right)))

\* frame[col] = frame[col].fillna(value)
fillna(frame, col, value) ==
    [i \in DOMAIN frame |->
        IF frame[i][col] = NaN THEN [frame[i] EXCEPT ![col] = value]
        ELSE frame[i]]

\* frame.dropna(subset=cols, how='any')
dropna(frame, cols) ==
    SelectSeq(frame, LAMBDA row : \A c \in cols : row[c] # NaN)

\* a fill that leaves is_basin out, and one that takes the distances in
FilledFloodOnly == {"flood_binary"}
FilledWithDistances ==
    {"flood_binary", "is_basin", "dist_to_river", "dist_to_tributaries"}
\* the columns filled with 0 after the joins (process.py:240-241)
FilledColumns == {"flood_binary", "is_basin"}
\* a dropna subset that leaves lulc_code out
CoreColumnsDtmOnly == {"dtm_value"}
\* the columns whose NaN drops the row (process.py:244)
CoreColumns == {"dtm_value", "lulc_code"}

RECURSIVE FillAll(_, _)
FillAll(frame, cols) ==
    IF cols = {} THEN frame
    ELSE LET c == CHOOSE c \in cols : TRUE
         IN  FillAll(fillna(frame, c, Num(0)), cols \ {c})

\* create_final_dataframe(dtm_df, lulc_df, flood_df, river_df,
\*                        tributaries_df, basin_df)
FusedTable(dtm, lulc, flood, river, tributaries, basin) ==
    LET m1 == pd_merge(rename(dtm, "dtm_value"), {"dtm_value"},
                       rename(lulc, "lulc_code"), {"lulc_code"})
        m2 == pd_merge(m1, {"dtm_value", "lulc_code"},
                       rename(flood, "flood_binary"), {"flood_binary"})
        m3 == pd_merge(m2, {"dtm_value", "lulc_code", "flood_binary"},
                       rename(river, "dist_to_river"), {"dist_to_river"})
        m4 == pd_merge(m3, {"dtm_value", "lulc_code", "flood_binary",
                            "dist_to_river"},
                       rename(tributaries, "dist_to_tributaries"),
                       {"dist_to_tributaries"})
        m5 == pd_merge(m4, {"dtm_value", "lulc_code", "flood_binary",
                            "dist_to_river", "dist_to_tributaries"},
                       rename(basin, "is_basin"), {"is_basin"})
    IN  dropna(FillAll(m5, FilledColumns), CoreColumns)

create_final_dataframe ==
    /\ op = "create_final_dataframe"
    /\ pc = "call"
    /\ final_df' = FusedTable(dtm_df, lulc_df, flood_df, river_df,
                              tributaries_df, basin_df)
    /\ pc' = "done"
    /\ UNCHANGED <<op, dtm_df, lulc_df, flood_df, river_df, tributaries_df,
                   basin_df, tabularVars, reconcileVars, distanceVars>>

----------------------------------------------------------------------------
(* The record sets given to the fusion.  Each is a tabularized grid: its   *)
(* keys are unique.  The six start complete (every key, a number in every  *)
(* cell) and up to MaxDefects cells are then made absent (no row for the   *)
(* key), missing (NaN) or, for the two indicators, zero.                   *)

Layers == {"dtm", "lulc", "flood", "river", "tributaries", "basin"}
Indicators == {"flood", "basin"}
KeyIndex == 0 .. MaxKeys - 1
\* the keys, in scan order of a grid two pixels wide with 50 m pixels
KeyOf(i) == <<(i % 2) * 50, 0 - (i \div 2) * 50>>

Slots == Layers \X KeyIndex
DefectSets == {S \in SUBSET Slots : Cardinality(S) <= MaxDefects}
DefectKinds(slot) ==
    IF slot[1] \in Indicators THEN {"absent", "nan", "zero"}
    ELSE {"absent", "nan"}
Defects ==
    UNION {{d \in [S -> {"absent", "nan", "zero"}] :
                \A s \in S : d[s] \in DefectKinds(s)} : S \in DefectSets}

BaseValue(layer, i) ==
    CASE layer = "dtm" -> Num(700 + i)
      [] layer = "lulc" -> Num(10 + i)
      [] layer = "river" -> Num(300 + i)
      [] layer = "tributaries" -> Num(400 + i)
      [] OTHER -> Num(1)

CellValue(d, layer, i) ==
    IF <<layer, i>> \notin DOMAIN d THEN BaseValue(layer, i)
    ELSE IF d[<<layer, i>>] = "nan" THEN NaN
    ELSE Num(0)

RECURSIVE RecordSetFrom(_, _, _)
RecordSetFrom(d, layer, i) ==
    IF i >= MaxKeys THEN <<>>
    ELSE (IF <<layer, i>> \in DOMAIN d /\ d[<<layer, i>>] = "absent"
          THEN <<>>
          ELSE <<[x |-> KeyOf(i)[1], y |-> KeyOf(i)[2],
                  value |-> CellValue(d, layer, i)]>>)
         \o RecordSetFrom(d, layer, i + 1)

RecordSet(d, layer) == RecordSetFrom(d, layer, 0)

NoFusion ==
    /\ dtm_df = <<>> /\ lulc_df = <<>> /\ flood_df = <<>>
    /\ river_df = <<>> /\ tributaries_df = <<>> /\ basin_df = <<>>
    /\ final_df = <<>>
NoTabular == raster_layer = None /\ block_garbage = <<>> /\ df = <<>>
NoReconcile ==
    /\ raster1 = None /\ raster2 = None
    /\ target_resolution = None /\ outcome = None
NoDistance ==
    /\ output_path = "" /\ pending = <<>>
    /\ input_ds = None /\ output_ds = None
    /\ open_handles = {} /\ distance = None

InitFusion ==
    /\ op = "create_final_dataframe"
    /\ pc = "call"
    /\ \E d \in Defects :
        /\ dtm_df = RecordSet(d, "dtm")
        /\ lulc_df = RecordSet(d, "lulc")
        /\ flood_df = RecordSet(d, "flood")
        /\ river_df = RecordSet(d, "river")
        /\ tributaries_df = RecordSet(d, "tributaries")
        /\ basin_df = RecordSet(d, "basin")
    /\ final_df = <<>>
    /\ NoTabular
    /\ NoReconcile
    /\ NoDistance

----------------------------------------------------------------------------
(* raster_to_dataframe.  A raster layer is a record: width and height in   *)
(* pixels, data (the band's samples in the block's own order, row after    *)
(* row), nodata (what sourceNoDataValue(1) returns: a number, NaN when the *)
(* file defines none, None from a provider that has no value to give), the *)
(* extent's xMinimum and yMaximum, and the geotransform's pixel_width      *)
(* (positive) and pixel_height (negative: the grid is north-up).           *)

\* QgsRasterLayer.rasterUnitsPerPixelX(), rasterUnitsPerPixelY(): the
\* extent's width (height) over the pixel count, both positive
rasterUnitsPerPixelX(layer) == layer.pixel_width
rasterUnitsPerPixelY(layer) == 0 - layer.pixel_height

\* QgsRasterBlock.value(row, column) reads the sample at row * width + column
\* without a bounds check: past the end of the block it returns whatever
\* the memory there holds
BlockIndex(layer, row, column) == row * layer.width + column
BlockValue(layer, garbage, row, column) ==
    LET index == BlockIndex(layer, row, column)
    IN  IF index < layer.width * layer.height THEN layer.data[index + 1]
        ELSE garbage[index]

\* array_2d[y][x] = block.value(x, y) (process.py:184): x, the column of the
\* pixel, is passed as the row and y, its row, as the column
ArrayCell(layer, garbage, x, y) == BlockValue(layer, garbage, x, y)

\* array_2d.flatten(): position i holds array_2d[i // width][i % width]
flat_array(layer, garbage) ==
    [i \in 1 .. layer.width * layer.height |->
        ArrayCell(layer, garbage, (i - 1) % layer.width,
                  (i - 1) \div layer.width)]

\* np.isclose(a, b): |a - b| <= atol + rtol * |b| with rtol = 1e-05 and
\* atol = 1e-08, False when either is NaN.  Both sides are multiplied by
\* 10^8; a difference above 20 exceeds the tolerance of every number used
\* here and is not multiplied.
np_isclose(a, b) ==
    /\ IsNum(a)
    /\ IsNum(b)
    /\ Abs(a.v - b.v) <= 20
    /\ Abs(a.v - b.v) * 100000000 <= 1 + 1000 * Abs(b.v)

\* `if nodata:` would take a sentinel of 0 for no sentinel
HasNodataTruthy(nodata) == nodata # None /\ nodata # Num(0)
\* `if nodata is not None` (process.py:189)
HasNodata(nodata) == nodata # None

\* np.where(np.isclose(flat_array, nodata), np.nan, flat_array), one sample
NodataReplaced(sample, nodata) ==
    IF HasNodata(nodata) /\ np_isclose(sample, nodata) THEN NaN ELSE sample

\* x_coords[i] and y_coords[i] (process.py:197-203), i from 0
x_coord(layer, i) ==
    layer.xMinimum + (i % layer.width) * rasterUnitsPerPixelX(layer)
\* y taken from the column index, as x is
y_coord_by_column(layer, i) ==
    layer.yMaximum - (i % layer.width) * rasterUnitsPerPixelY(layer)
y_coord(layer, i) ==
    layer.yMaximum - (i \div layer.width) * rasterUnitsPerPixelY(layer)

\* pd.DataFrame({"value": flat_array, "x": x_coords, "y": y_coords})
Tabular(layer, garbage) ==
    [i \in 1 .. layer.width * layer.height |->
        [value |-> NodataReplaced(flat_array(layer, garbage)[i],
                                  layer.nodata),
         x |-> x_coord(layer, i - 1),
         y |-> y_coord(layer, i - 1)]]

\* the block indexes raster_to_dataframe reads past the end of the block
PastTheEnd(layer) ==
    {BlockIndex(layer, x, y) : x \in 0 .. layer.width - 1,
                               y \in 0 .. layer.height - 1}
        \ (0 .. layer.width * layer.height - 1)

\* what a read past the end may give
GarbageValues == {Num(0), Num(7)}

raster_to_dataframe ==
    /\ op = "raster_to_dataframe"
    /\ pc = "call"
    /\ \E garbage \in [PastTheEnd(raster_layer) -> GarbageValues] :
          /\ block_garbage' = garbage
          /\ df' = Tabular(raster_layer, garbage)
    /\ pc' = "done"
    /\ UNCHANGED <<op, raster_layer, fusionVars, reconcileVars,
                   distanceVars>>

\* the grids given to the tabularizer
SampleValues == {Num(0), Num(7), Num(-1000000), Num(-999995)}
NodataValues == {None, NaN, Num(0), Num(-1000000)}
PixelSizes == {<<50, -50>>, <<10, -20>>}
Shapes ==
    {s \in (1 .. MaxCells) \X (1 .. MaxCells) : s[1] * s[2] <= MaxCells}
RasterLayers ==
    UNION {[width : {s[1]}, height : {s[2]},
            data : [1 .. s[1] * s[2] -> SampleValues],
            nodata : NodataValues,
            xMinimum : {300}, yMaximum : {900},
            pixel_width : {p[1]}, pixel_height : {p[2]}] :
           s \in Shapes, p \in PixelSizes}

InitTabular ==
    /\ op = "raster_to_dataframe"
    /\ pc = "call"
    /\ raster_layer \in RasterLayers
    /\ block_garbage = <<>>
    /\ df = <<>>
    /\ NoFusion
    /\ NoReconcile
    /\ NoDistance

----------------------------------------------------------------------------
(* check_resolution_and_crs.  A grid is a record: the path of its file,    *)
(* crs (the authority id), the extent (xMinimum, yMinimum, xMaximum,       *)
(* yMaximum) and the geotransform's pixel_width and pixel_height           *)
(* (negative).  gdal.Warp and load_raster are GDAL's and QGIS's: Warp      *)
(* writes the grid its options describe, load_raster gives that grid back. *)

\* targetAlignedPixels=False would leave the extent where it is
Unsnapped(v, res) == v
\* floor(v / res) * res and ceil(v / res) * res: where targetAlignedPixels
\* puts the minimum and the maximum of the output extent
SnapDown(v, res) == (v \div res) * res
SnapUp(v, res) == 0 - (((0 - v) \div res) * res)

\* gdal.Warp(dest, src, xRes=res, yRes=res, targetAlignedPixels=True,
\*           dstSRS=srs, outputBounds=the extent of `grid`), then
\* load_raster(dest, ...)  (process.py:65-82, 85-102, 104-105)
Resampled(dest, grid, srs, res) ==
    [path |-> dest,
     crs |-> srs,
     xMinimum |-> SnapDown(grid.xMinimum, res),
     yMinimum |-> SnapDown(grid.yMinimum, res),
     xMaximum |-> SnapUp(grid.xMaximum, res),
     yMaximum |-> SnapUp(grid.yMaximum, res),
     pixel_width |-> res,
     pixel_height |-> 0 - res]

\* the paths main passes (main.py:38-39, 54-55) and the one the function
\* reprojects to (process.py:41)
path_raster1 == "data/DigitalTerrainModel/DTM_TTI_buffer_1km_FILLED.tif"
path_raster2 == "data/LandUseLandCover/LULC_10m_TTI_clipped_1km.tif"
resampled_path1 == "temp/resampled_dtm.tif"
resampled_path2 == "temp/resampled_lulc.tif"
temp_reprojected_path == "temp/reprojected_lulc_temp.tif"

\* a square grid of two by two pixels
Grid(path, crs, x, y, size) ==
    [path |-> path, crs |-> crs,
     xMinimum |-> x, yMinimum |-> y - 2 * size,
     xMaximum |-> x + 2 * size, yMaximum |-> y,
     pixel_width |-> size, pixel_height |-> 0 - size]

CrsIds == {"EPSG:31983", "EPSG:4326"}
Coords == -1 .. MaxCoord
InputPixelSizes == {1, 2}
TargetResolutions == {None, Num(2), Num(3)}
Grids(path) ==
    {Grid(path, c, x, y, size) :
        c \in CrsIds, x \in Coords, y \in Coords, size \in InputPixelSizes}

\* gdal.Warp(temp_reprojected_path, path_raster2, srcSRS=crs2, dstSRS=crs1,
\* ...) then load_raster (process.py:42-57): the second grid in the first
\* grid's CRS; where the reprojection puts it is the geodesy library's choice
Reprojections(crs1) == {g \in Grids(temp_reprojected_path) : g.crs = crs1}

\* the CRS the second gdal.Warp is given: raster2.crs().authid(), read after
\* raster2 was replaced by the reprojected grid
SecondSrs(first, second, reprojected) == reprojected.crs

Returned(first, second, written) ==
    [kind |-> "return", raster1 |-> first, raster2 |-> second,
     error |-> "", written |-> written]
Raised(error, written) ==
    [kind |-> "raise", raster1 |-> None, raster2 |-> None,
     error |-> error, written |-> written]

\* steps 1 and 2 of check_resolution_and_crs, `second` being raster2 as it
\* is after step 1 and `written` the files step 1 wrote
Reconciled(first, original, second, written, target) ==
    IF ~IsNum(target)
    \* xRes=None, yRes=None: gdal.Warp is given -tap without -tr and fails;
    \* gdal.UseExceptions() (process.py:8) makes that a RuntimeError
    THEN Raised("RuntimeError", written)
    ELSE Returned(
            Resampled(resampled_path1, first, first.crs, target.v),
            Resampled(resampled_path2, second,
                      SecondSrs(first, original, second), target.v),
            written \cup {resampled_path1, resampled_path2})

check_resolution_and_crs ==
    /\ op = "check_resolution_and_crs"
    /\ pc = "call"
    /\ \/ /\ raster1.crs # raster2.crs
          /\ \E reprojected \in Reprojections(raster1.crs) :
                outcome' = Reconciled(raster1, raster2, reprojected,
                                      {temp_reprojected_path},
                                      target_resolution)
       \/ /\ raster1.crs = raster2.crs
          /\ outcome' = Reconciled(raster1, raster2, raster2, {},
                                   target_resolution)
    /\ pc' = "done"
    /\ UNCHANGED <<op, raster1, raster2, target_resolution, fusionVars,
                   tabularVars, distanceVars>>

InitReconcile ==
    /\ op = "check_resolution_and_crs"
    /\ pc = "call"
    /\ raster1 \in Grids(path_raster1)
    /\ raster2 \in Grids(path_raster2)
    /\ target_resolution \in TargetResolutions
    /\ outcome = None
    /\ NoFusion
    /\ NoTabular
    /\ NoDistance

----------------------------------------------------------------------------
(* calculate_distance_to_features, one action per step, as main calls it:  *)
(* for the river layer and then for the tributaries layer (main.py:65-66). *)
(* A GDAL dataset is open while a Python name refers to it.  A local that  *)
(* holds one when an exception leaves the function still holds it: the     *)
(* exception's traceback keeps the frame, and main has no except clause to *)
(* discard it.                                                             *)

empty_raster_path == "temp/empty_raster.tif"
path_temp_river_dist == "temp/river_dist.tif"
path_temp_tributaries_dist == "temp/tributaries_dist.tif"

\* an open GDAL dataset, as a Python name refers to it
Dataset(path) == [kind |-> "dataset", v |-> 0, path |-> path]

DistanceAt(label) == op = "calculate_distance_to_features" /\ pc = label

\* an exception leaves the function: the locals are as they were
DistanceRaises(error) ==
    /\ pc' = "raised"
    /\ distance' = [kind |-> "raise", error |-> error]
    /\ UNCHANGED <<input_ds, output_ds, open_handles>>

\* Step 1, gdal.Rasterize(empty_raster_path, ...) (process.py:269-289): the
\* dataset it returns is bound to no name, so it is closed at once
dist_rasterize ==
    /\ DistanceAt("call")
    /\ \/ /\ pc' = "rasterized"
          /\ UNCHANGED <<input_ds, output_ds, open_handles, distance>>
       \/ DistanceRaises("RuntimeError")
    /\ UNCHANGED <<op, output_path, pending, fusionVars, tabularVars,
                   reconcileVars>>

\* Step 2, input_ds = gdal.Open(empty_raster_path) (process.py:292-295): a
\* failed Open raises (gdal.UseExceptions, process.py:8) or gives None, and
\* then the function raises IOError; no dataset is open either way
dist_open ==
    /\ DistanceAt("rasterized")
    /\ \/ /\ input_ds' = Dataset(empty_raster_path)
          /\ open_handles' = open_handles \cup {empty_raster_path}
          /\ pc' = "opened"
          /\ UNCHANGED <<output_ds, distance>>
       \/ \E error \in {"RuntimeError", "IOError"} : DistanceRaises(error)
    /\ UNCHANGED <<op, output_path, pending, fusionVars, tabularVars,
                   reconcileVars>>

\* Step 3, output_ds = driver.Create(output_path, ...) (process.py:298-307):
\* on failure the function raises with input_ds still referring to the
\* presence grid
dist_create ==
    /\ DistanceAt("opened")
    /\ \/ /\ output_ds' = Dataset(output_path)
          /\ open_handles' = open_handles \cup {output_path}
          /\ pc' = "created"
          /\ UNCHANGED <<input_ds, distance>>
       \/ \E error \in {"RuntimeError", "IOError"} : DistanceRaises(error)
    /\ UNCHANGED <<op, output_path, pending, fusionVars, tabularVars,
                   reconcileVars>>

\* SetProjection, SetGeoTransform, SetNoDataValue and Step 4,
\* gdal.ComputeProximity (process.py:310-321), any of which may raise
dist_compute ==
    /\ DistanceAt("created")
    /\ \/ /\ pc' = "computed"
          /\ UNCHANGED <<input_ds, output_ds, open_handles, distance>>
       \/ DistanceRaises("RuntimeError")
    /\ UNCHANGED <<op, output_path, pending, fusionVars, tabularVars,
                   reconcileVars>>

\* the handles left open when the two locals are set to None
KeptOpen(handles, first, second) == handles \ {first.path, second.path}

\* Step 5, input_ds = None; output_ds = None (process.py:324-325)
dist_release ==
    /\ DistanceAt("computed")
    /\ open_handles' = KeptOpen(open_handles, input_ds, output_ds)
    /\ input_ds' = None
    /\ output_ds' = None
    /\ pc' = "released"
    /\ UNCHANGED <<op, output_path, pending, distance, fusionVars,
                   tabularVars, reconcileVars>>

\* return QgsRasterLayer(output_path, "distance_raster") (process.py:327)
dist_return ==
    /\ DistanceAt("released")
    /\ distance' = [kind |-> "return", error |-> output_path]
    /\ pc' = "done"
    /\ UNCHANGED <<op, output_path, pending, input_ds, output_ds,
                   open_handles, fusionVars, tabularVars, reconcileVars>>

\* main goes on to its next call of calculate_distance_to_features
\* (main.py:66) once the one before has returned; a call that raised ends
\* the run (main.py:82-85)
main_next_distance ==
    /\ DistanceAt("done")
    /\ pending # <<>>
    /\ output_path' = Head(pending)
    /\ pending' = Tail(pending)
    /\ distance' = None
    /\ pc' = "call"
    /\ UNCHANGED <<op, input_ds, output_ds, open_handles, fusionVars,
                   tabularVars, reconcileVars>>

InitDistance ==
    /\ op = "calculate_distance_to_features"
    /\ pc = "call"
    /\ output_path = path_temp_river_dist
    /\ pending = <<path_temp_tributaries_dist>>
    /\ input_ds = None
    /\ output_ds = None
    /\ open_handles = {}
    /\ distance = None
    /\ NoFusion
    /\ NoTabular
    /\ NoReconcile

Init == InitFusion \/ InitTabular \/ InitReconcile \/ InitDistance

Next ==
    \/ create_final_dataframe
    \/ raster_to_dataframe
    \/ check_resolution_and_crs
    \/ dist_rasterize
    \/ dist_open
    \/ dist_create
    \/ dist_compute
    \/ dist_release
    \/ dist_return
    \/ main_next_distance

Spec == Init /\ [][Next]_vars

----------------------------------------------------------------------------
(* The fusion's claims *)

Fused == op = "create_final_dataframe" /\ pc = "done"

\* the keys of the six arguments
InputKeys ==
    KeysOf(dtm_df) \cup KeysOf(lulc_df) \cup KeysOf(flood_df)
        \cup KeysOf(river_df) \cup KeysOf(tributaries_df) \cup KeysOf(basin_df)

Has(frame, k) == k \in KeysOf(frame)
\* the value an argument holds at a key, NaN when it has no record there
ValueAt(frame, k) == IF Has(frame, k) THEN RowsAt(frame, k)[1].value ELSE NaN
Core(k) == ValueAt(dtm_df, k) # NaN /\ ValueAt(lulc_df, k) # NaN

\* C1. Fusion drop law: no row of the fused table has a missing dtm_value
\* or lulc_code, and every key whose dtm_value or lulc_code is missing after
\* the joins (no record in that argument, or a NaN one) is not in the table.
C1_FusionDropLaw ==
    Fused =>
        /\ \A i \in DOMAIN final_df :
              final_df[i].dtm_value # NaN /\ final_df[i].lulc_code # NaN
        /\ \A k \in InputKeys : ~Core(k) => k \notin KeysOf(final_df)

\* a table that kept one key and dropped another for its missing land cover
C1_Witness ==
    /\ Fused
    /\ final_df # <<>>
    /\ \E k \in InputKeys :
          /\ ValueAt(dtm_df, k) # NaN
          /\ ValueAt(lulc_df, k) = NaN
          /\ k \notin KeysOf(final_df)

\* C2. Fusion fill law: in every row of the fused table flood_binary and
\* is_basin are 0 or 1, and they are 0 where the key has no flood (basin)
\* record or a NaN one.
C2_FusionFillLaw ==
    Fused =>
        \A i \in DOMAIN final_df :
            LET k == Key(final_df[i]) IN
            /\ final_df[i].flood_binary \in {Num(0), Num(1)}
            /\ final_df[i].is_basin \in {Num(0), Num(1)}
            /\ ValueAt(flood_df, k) = NaN => final_df[i].flood_binary = Num(0)
            /\ ValueAt(basin_df, k) = NaN => final_df[i].is_basin = Num(0)
            /\ ValueAt(flood_df, k) # NaN
                  => final_df[i].flood_binary = ValueAt(flood_df, k)
            /\ ValueAt(basin_df, k) # NaN
                  => final_df[i].is_basin = ValueAt(basin_df, k)

\* a row whose key has no basin record, in a table where a flood cell was NaN
C2_Witness ==
    /\ Fused
    /\ \E i \in DOMAIN final_df :
          /\ ~Has(basin_df, Key(final_df[i]))
          /\ final_df[i].is_basin = Num(0)
    /\ \E i \in DOMAIN final_df :
          /\ Has(flood_df, Key(final_df[i]))
          /\ ValueAt(flood_df, Key(final_df[i])) = NaN
          /\ final_df[i].flood_binary = Num(0)

RowCount(frame, k) == Len(RowsAt(frame, k))

\* C3 as claimed. Fusion key preservation: the fused table has one row for
\* every key present in at least one of the six arguments.
C3_AllKeysPreserved ==
    Fused => \A k \in InputKeys : RowCount(final_df, k) = 1

\* C3 as amended. The fused table has exactly one row for every key whose
\* terrain and land-cover records both exist and are not NaN, and no row for
\* any other key, whichever other arguments hold that key.
C3_CoreKeysPreserved ==
    Fused =>
        /\ KeysOf(final_df) \subseteq InputKeys
        /\ \A k \in InputKeys :
              RowCount(final_df, k) = IF Core(k) THEN 1 ELSE 0

\* a key only the indicator and distance arguments hold, next to a kept key
\* that the flood argument lacks
C3_Witness ==
    /\ Fused
    /\ \E k \in InputKeys :
          /\ ~Has(dtm_df, k)
          /\ Has(river_df, k)
          /\ RowCount(final_df, k) = 0
    /\ \E k \in InputKeys :
          /\ ~Has(flood_df, k)
          /\ RowCount(final_df, k) = 1

\* C4. The distance columns are not filled: in every row of the fused table
\* dist_to_river and dist_to_tributaries are the value of the argument's
\* record for that key, NaN when there is none; and a key with terrain and
\* land cover keeps its row whatever its distances are.
C4_DistancesNotFilled ==
    Fused =>
        /\ \A i \in DOMAIN final_df :
              LET k == Key(final_df[i]) IN
              /\ final_df[i].dist_to_river = ValueAt(river_df, k)
              /\ final_df[i].dist_to_tributaries = ValueAt(tributaries_df, k)
        /\ \A k \in InputKeys : Core(k) => k \in KeysOf(final_df)

\* a row kept with no river record for its key, and a row with a NaN
\* tributary distance
C4_Witness ==
    /\ Fused
    /\ \E i \in DOMAIN final_df :
          /\ ~Has(river_df, Key(final_df[i]))
          /\ final_df[i].dist_to_river = NaN
          /\ final_df[i].dist_to_tributaries # NaN
    /\ \E i \in DOMAIN final_df :
          /\ Has(tributaries_df, Key(final_df[i]))
          /\ final_df[i].dist_to_tributaries = NaN

----------------------------------------------------------------------------
(* The tabularizer's claims *)

Tabularized == op = "raster_to_dataframe" /\ pc = "done"

\* the sample of pixel (col, row) of the grid
Sample(layer, col, row) == layer.data[row * layer.width + col + 1]

\* C5. Tabularizer completeness: the record set has width * height rows and
\* no two of them share their (x, y) key.
C5_TabularizerCompleteness ==
    Tabularized =>
        /\ Len(df) = raster_layer.width * raster_layer.height
        /\ \A i, j \in DOMAIN df : i # j => Key(df[i]) # Key(df[j])

\* a grid of more than one row and more than one column was tabularized
C5_Witness ==
    /\ Tabularized
    /\ raster_layer.width >= 2
    /\ raster_layer.height >= 2
    /\ Len(df) >= 4

\* C6 as claimed. Tabularizer coordinate mapping: the row at scan position i
\* (col = i mod width, row = i div width) holds the sample of pixel
\* (col, row), nodata replaced, with x = origin_x + col * pixel_width and
\* y = origin_y + row * pixel_height, pixel_height being negative.
C6_ScanOrderMapping ==
    Tabularized =>
        \A i \in 0 .. raster_layer.width * raster_layer.height - 1 :
            LET col == i % raster_layer.width
                row == i \div raster_layer.width
            IN  /\ df[i + 1].value =
                      NodataReplaced(Sample(raster_layer, col, row),
                                     raster_layer.nodata)
                /\ df[i + 1].x =
                      raster_layer.xMinimum + col * raster_layer.pixel_width
                /\ df[i + 1].y =
                      raster_layer.yMaximum + row * raster_layer.pixel_height

\* The coordinates of C6 alone: they are as claimed, so C6 fails on the
\* samples only.
C6_Coordinates ==
    Tabularized =>
        \A i \in 0 .. raster_layer.width * raster_layer.height - 1 :
            /\ df[i + 1].x = raster_layer.xMinimum
                  + (i % raster_layer.width) * raster_layer.pixel_width
            /\ df[i + 1].y = raster_layer.yMaximum
                  + (i \div raster_layer.width) * raster_layer.pixel_height

\* a sample is within np.isclose's default tolerance of the sentinel:
\* |sample - sentinel| <= 1e-08 + 1e-05 * |sentinel|, times 10^8
WithinTolerance(sample, sentinel) ==
    LET d == Abs(sample.v - sentinel.v)
    IN  d <= 20 /\ d * 100000000 <= 1 + 1000 * Abs(sentinel.v)

\* C7. Tabularizer nodata handling: of the samples raster_to_dataframe read,
\* those within tolerance of the grid's nodata sentinel become NaN and every
\* other one is unchanged; with nodata 0 the 0 samples become NaN, and with
\* no nodata defined (None, or the NaN QGIS reports) no sample is replaced.
C7_NodataHandling ==
    Tabularized =>
        \A i \in DOMAIN df :
            LET raw == flat_array(raster_layer, block_garbage)[i]
                nodata == raster_layer.nodata
            IN  /\ nodata \in {None, NaN} => df[i].value = raw
                /\ IsNum(nodata) /\ WithinTolerance(raw, nodata)
                      => df[i].value = NaN
                /\ IsNum(nodata) /\ ~WithinTolerance(raw, nodata)
                      => df[i].value = raw
                /\ nodata = Num(0) /\ raw = Num(0) => df[i].value = NaN
                /\ nodata = Num(0) /\ raw # Num(0) => df[i].value = raw

\* a grid whose nodata is 0: a 0 sample became NaN, another sample stayed
C7_Witness ==
    /\ Tabularized
    /\ raster_layer.nodata = Num(0)
    /\ \E i \in DOMAIN df :
          /\ flat_array(raster_layer, block_garbage)[i] = Num(0)
          /\ df[i].value = NaN
    /\ \E i \in DOMAIN df :
          /\ flat_array(raster_layer, block_garbage)[i] = Num(7)
          /\ df[i].value = Num(7)

\* a grid with no nodata defined whose 0 sample stayed 0
C7_NoNodataReached ==
    /\ Tabularized
    /\ raster_layer.nodata = None
    /\ \E i \in DOMAIN df : df[i].value = Num(0)

\* a sample near the sentinel, not equal to it, became NaN
C7_ToleranceReached ==
    /\ Tabularized
    /\ raster_layer.nodata = Num(-1000000)
    /\ \E i \in DOMAIN df :
          /\ flat_array(raster_layer, block_garbage)[i] = Num(-999995)
          /\ df[i].value = NaN

----------------------------------------------------------------------------
(* The reconciler's claims *)

Reconciling == op = "check_resolution_and_crs" /\ pc = "done"

\* a is an integer multiple of the pixel size
Multiple(a, pixel) == a % Abs(pixel) = 0

\* C8. Congruence invariant: the two grids check_resolution_and_crs returns
\* have the same CRS, the same pixel width and the same pixel height, and
\* their origins differ by an integer multiple of the pixel size, whatever
\* the CRS, resolutions and origins of the two grids given.
C8_Congruence ==
    Reconciling /\ outcome.kind = "return" =>
        LET A == outcome.raster1
            B == outcome.raster2
        IN  /\ A.crs = B.crs
            /\ A.pixel_width = B.pixel_width
            /\ A.pixel_height = B.pixel_height
            /\ Multiple(A.xMinimum - B.xMinimum, A.pixel_width)
            /\ Multiple(A.yMaximum - B.yMaximum, A.pixel_height)

\* two grids came back for inputs that differ in CRS and in resolution and
\* whose origins are not a whole number of target pixels apart
C8_Witness ==
    /\ Reconciling
    /\ outcome.kind = "return"
    /\ raster1.crs # raster2.crs
    /\ raster1.pixel_width # raster2.pixel_width
    /\ ~Multiple(raster1.xMinimum - raster2.xMinimum, target_resolution.v)
    /\ ~Multiple(raster1.yMaximum - raster2.yMaximum, target_resolution.v)
    /\ outcome.raster1.xMinimum # outcome.raster2.xMinimum

\* the resolutions of two grids match within 1e-6 in squared-pixel-area
\* units: the pixel areas are integers here, so they are equal
ResolutionsMatch(a, b) ==
    a.pixel_width * Abs(a.pixel_height) = b.pixel_width * Abs(b.pixel_height)

\* C9 as claimed. Reconciler no-op: with no target resolution and matching
\* resolutions nothing is resampled and the two given grids are returned
\* unchanged.
C9_NoOpWhenResolutionsMatch ==
    Reconciling /\ target_resolution = None /\ raster1.crs = raster2.crs
        /\ ResolutionsMatch(raster1, raster2)
        => /\ outcome.kind = "return"
           /\ outcome.raster1 = raster1
           /\ outcome.raster2 = raster2
           /\ outcome.written = {}

\* C9 with a target resolution equal to the resolution both grids already
\* have: the grids are resampled all the same.
C9_NoOpAtOwnResolution ==
    Reconciling /\ IsNum(target_resolution) /\ raster1.crs = raster2.crs
        /\ raster1.pixel_width = target_resolution.v
        /\ raster2.pixel_width = target_resolution.v
        => /\ outcome.kind = "return"
           /\ outcome.raster1 = raster1
           /\ outcome.raster2 = raster2
           /\ outcome.written = {}

\* C10 as claimed, on the calls that pass a number as target_resolution (the
\* float the docstring asks for). CRS mismatch is an error: when the CRS ids
\* of the two grids differ the call raises a ValueError and returns no grids.
C10_CrsMismatchRaises ==
    Reconciling /\ raster1.crs # raster2.crs /\ IsNum(target_resolution)
        => /\ outcome.kind = "raise"
           /\ outcome.error = "ValueError"
           /\ outcome.raster1 = None
           /\ outcome.raster2 = None

----------------------------------------------------------------------------
(* The proximity engine's claim *)

DistanceExited ==
    op = "calculate_distance_to_features" /\ pc \in {"done", "raised"}

\* C11 as claimed. Scoped release of grid handles: on every exit path of
\* calculate_distance_to_features, a return or a raise, no dataset the call
\* opened (the presence grid temp/empty_raster.tif, the output distance
\* grid) is still open once the call has exited, and no call rasterizes or
\* opens the presence grid while a handle on it is held.
C11_HandlesReleasedOnExit ==
    /\ DistanceExited => open_handles = {}
    /\ DistanceAt("call") \/ DistanceAt("rasterized")
          => empty_raster_path \notin open_handles

\* C11 on the paths the code does cover: a call that returns has closed both
\* datasets, so main's second call finds the presence grid closed, and a
\* call that failed before or in gdal.Open holds nothing.
C11_ReleasedOnReturn ==
    /\ DistanceAt("released") \/ DistanceAt("done") \/ DistanceAt("call")
          \/ DistanceAt("rasterized")
          => open_handles = {} /\ input_ds = None /\ output_ds = None
    /\ DistanceAt("raised") /\ input_ds = None => open_handles = {}

\* both calls of main returned
C11_BothCallsReturned ==
    /\ DistanceAt("done")
    /\ pending = <<>>
    /\ distance.kind = "return"
    /\ output_path = path_temp_tributaries_dist

====
